---- MODULE Spec2Model ----
(***************************************************************************)
(* Model of cloudbench (src/bench.py): one benchmark run of the script,    *)
(* from run(args) inside the try block of __main__ to the process exit.    *)
(*                                                                         *)
(* The script is Python 2 (str output of subprocess fed to re.search,      *)
(* integer "/"), so a dict is CPython 2.7's open-addressed hash table:     *)
(* keys() and update() walk the slots, not the insertion order.            *)
(*                                                                         *)
(* External tools are the environment: each invocation draws the tool's    *)
(* exit status and its output from small sets.  A KeyboardInterrupt may    *)
(* arrive between any two steps.                                           *)
(*                                                                         *)
(* Spec is the whole run.  CollisionSpec is the fio loop, ioping and the   *)
(* merge of run_tests over a registry whose identifiers may collide;       *)
(* FilterSpec is the iozone step over blocks of rows for the configured    *)
(* size.  Both start from states the run reaches.                          *)
(***************************************************************************)
EXTENDS Integers, Sequences, FiniteSets, TLC

VARIABLES
    pc,                \* position of the script
    args,              \* argparse namespace: deps, iobench_type, iobench_short_size
    aptIdx,            \* loop index of install_deps over PACKAGES_REQUIRED
    download_md5,      \* install_deps: digest of the downloaded package
    configWritten,     \* ~/.phoronix-test-suite/user-config.xml written
    phIdx,             \* loop index over REQUIRED_PHORONIX_TESTS
    phoronix_results,  \* dict of _run_tests_phoronix
    size,              \* (size_m, size_k) returned by __get_io_test_size
    ioResults,         \* dict "results" of __run_iobench_test
    fioIdx,            \* loop index over REQUIRED_FIO_TESTS
    fioJobs,           \* fio job files written, in order
    result,            \* local "result" of __run_iobench_test (last fio match)
    results,           \* dict "results" of run_tests
    report,            \* /tmp/cloudbench.csv and the local "hostname" of its with block
    rowIdx,            \* loop index of the report rows
    invoked,           \* external commands run so far, with their outcome
    exc,               \* exception being propagated
    failedAt,          \* position at which exc was raised
    exitStatus,        \* process exit status, NotExited while running
    output             \* text captured from the last external tool (local "output")

vars == <<pc, args, aptIdx, download_md5, configWritten, phIdx,
          phoronix_results, size, ioResults, fioIdx, fioJobs, result,
          results, report, rowIdx, invoked, exc, failedAt, exitStatus, output>>

----------------------------------------------------------------------------
(* Bounds of the environment *)

\* host memory sizes (GB) the memory query may report
MaxRamGB == 2

\* host memory values in MB, as "free -m" prints them
RamValues == {1024 * g : g \in 1..MaxRamGB}

\* number of lines of iozone output considered
MaxIozoneLines == 2

----------------------------------------------------------------------------
(* Static configuration *)

PACKAGES_REQUIRED ==
    <<"php5-cli", "php5-gd", "php5-json", "sqlite3", "iozone3", "fio", "wget", "ioping">>

PHORONIX_MD5 == "8d0c9ffca7a809934419a3e3ed6e304e"

REQUIRED_PHORONIX_TESTS ==
    << [name |-> "Multicore Kernel Compile (seconds)", test |-> "pts/build-linux-kernel"] >>

REQUIRED_FIO_TESTS ==
    << [test_name |-> "FIO random writes using 4k blocks", fio_hdr |-> "random-write",
        fio_rw |-> "randwrite", fio_blocksize |-> "4k", fio_ioengine |-> "sync",
        word |-> "write"],
       [test_name |-> "FIO random reads using 4k blocks", fio_hdr |-> "random-read",
        fio_rw |-> "randread", fio_blocksize |-> "4k", fio_ioengine |-> "",
        word |-> "read"] >>

\* --iobench_short_size is declared action='store_true', default=512: the
\* value is 512 without the flag and True (the integer 1) with it.
ShortSizes == {512, 1}

IobenchTypes == {"short", "long", "medium"}

ArgsSet == [deps : BOOLEAN, iobench_type : IobenchTypes, iobench_short_size : ShortSizes]

NotExited == -1

ExitCodes == {0, 1}

----------------------------------------------------------------------------
(* Python 2 dict: CPython 2.7 hash table of 8 slots (no resize below 6     *)
(* entries).  ProbeSeq is the slot sequence lookdict_string visits for the *)
(* key: hash & 7, then i = 5i + perturb + 1 with perturb >>= 5, from the   *)
(* string hash of the key (identical on 32- and 64-bit builds for these    *)
(* first probes).                                                          *)

Slots == 0..7

NoResult == [kind |-> "", text |-> <<>>, w |-> 0, r |-> 0]

EmptySlot == [key |-> "", name |-> "", result |-> NoResult]

EmptyDict == [s \in Slots |-> EmptySlot]

ProbeSeq(key) ==
    CASE key = "pts/build-linux-kernel" -> <<5, 7, 5, 1, 4, 5, 4>>
      [] key = "iozone"                 -> <<0, 1, 5, 1, 1, 7, 0>>
      [] key = "random-write"           -> <<7, 3, 4, 5, 2, 4, 0>>
      [] key = "random-read"            -> <<1, 7, 7, 6, 6, 3, 0>>
      [] key = "ioping"                 -> <<2, 5, 3, 3, 4, 0, 1>>

\* an insertion that never compares keys: it takes the first free slot
DictSet_NoKeyCompare(d, key, name, res) ==
    LET ps == ProbeSeq(key)
        i == CHOOSE j \in 1..Len(ps) : d[ps[j]].key = "" /\ \A h \in 1..(j-1) : d[ps[h]].key # ""
    IN [d EXCEPT ![ps[i]] = [key |-> key, name |-> name, result |-> res]]

\* d[key] = {'name': name, 'result': res}
DictSet(d, key, name, res) ==
    LET ps == ProbeSeq(key)
        usable(i) == d[ps[i]].key = "" \/ d[ps[i]].key = key
        i == CHOOSE j \in 1..Len(ps) : usable(j) /\ \A h \in 1..(j-1) : ~usable(h)
    IN [d EXCEPT ![ps[i]] = [key |-> key, name |-> name, result |-> res]]

RECURSIVE DictUpdateFrom(_, _, _)
\* d.update(other): PyDict_Merge walks the slots of other in table order
DictUpdateFrom(d, other, s) ==
    IF s \notin Slots THEN d
    ELSE DictUpdateFrom(IF other[s].key = "" THEN d
                        ELSE DictSet(d, other[s].key, other[s].name, other[s].result),
                        other, s + 1)

DictUpdate(d, other) == DictUpdateFrom(d, other, 0)

RECURSIVE DictKeysFrom(_, _)
DictKeysFrom(d, s) ==
    IF s \notin Slots THEN <<>>
    ELSE (IF d[s].key = "" THEN <<>> ELSE <<d[s].key>>) \o DictKeysFrom(d, s + 1)

\* d.keys(): the keys in slot order
DictKeys(d) == DictKeysFrom(d, 0)

DictHas(d, key) == \E s \in Slots : d[s].key = key

DictGet(d, key) == d[CHOOSE s \in Slots : d[s].key = key]

DictLen(d) == Cardinality({s \in Slots : d[s].key # ""})

----------------------------------------------------------------------------
(* Outputs of the external tools, and what the script reads out of them *)

\* a match object is <<group>>, None is <<>>
None == <<>>

\* phoronix batch-run output: whether it holds a line
\* "  Average: <secs>.<frac> Seconds", and the integer part of the figure
PhoronixOutputs ==
    {[average |-> FALSE, secs |-> ""],
     [average |-> TRUE, secs |-> "98"],
     [average |-> TRUE, secs |-> "312"]}

\* re.search('\s+Average: (\d+)\.\d+ Seconds', output)
PhoronixSearch(text) == IF text.average THEN <<text.secs>> ELSE None

\* memory query "free -m | grep Mem: | awk '{print $2}'": exit status of
\* free itself, whether the pipeline printed a number, and the number
MemQueryOutcomes ==
    {[exit |-> 0, digits |-> TRUE, ram |-> r] : r \in RamValues}
    \cup {[exit |-> e, digits |-> FALSE, ram |-> 0] : e \in ExitCodes}

\* one line of iozone output: whether it contains the digits of size_k,
\* the word "maximum" or "minimum" it carries (or none), its number of
\* columns, and the write (cols[2]) and read (cols[4]) columns
IozoneLines ==
    [hasSize : BOOLEAN, label : {"", "maximum", "minimum"}, ncols : {5},
     write : {2048, 4096}, read : {1024}]
    \cup {[hasSize |-> TRUE, label |-> "", ncols |-> 2, write |-> 0, read |-> 0]}

RECURSIVE SeqsUpTo(_, _)
SeqsUpTo(S, n) ==
    IF n = 0 THEN {<<>>}
    ELSE LET shorter == SeqsUpTo(S, n - 1)
         IN shorter \cup {Append(q, x) : q \in {t \in shorter : Len(t) = n - 1}, x \in S}

IozoneOutputs == SeqsUpTo(IozoneLines, MaxIozoneLines)

\* a filter that only selects by size: "| grep <size_k>"
GrepFilter_NoExclusion(lines) == SelectSeq(lines, LAMBDA l : l.hasSize)

\* "| grep <size_k> | grep -v maximum | grep -v minimum"
GrepFilter(lines) == SelectSeq(lines, LAMBDA l : l.hasSize /\ l.label = "")

\* exit status of the shell pipeline: that of its last stage, grep, which is
\* 0 exactly when it selected a line; the status of iozone itself is dropped
PipelineStatus(iozoneExit, lines) == IF GrepFilter(lines) = <<>> THEN 1 ELSE 0

\* re.split('\s+', output.strip()): the columns of all captured lines, one
\* after the other; a full row is size, record length, write, rewrite, read
LineCols(l, size_k) ==
    LET kb == IF l.hasSize THEN size_k ELSE 64
    IN IF l.ncols = 5 THEN <<kb, 16, l.write, l.write, l.read>> ELSE <<kb, 16>>

RECURSIVE SplitCols(_, _)
SplitCols(lines, size_k) ==
    IF lines = <<>> THEN <<>>
    ELSE LineCols(Head(lines), size_k) \o SplitCols(Tail(lines), size_k)

\* "Write %s MB/s Read %s MB/s" % (int(cols[2])/1024, int(cols[4])/1024),
\* cols indexed from 0
IozoneResult(cols) ==
    [kind |-> "iozone", text |-> <<>>, w |-> cols[3] \div 1024, r |-> cols[5] \div 1024]

\* one line of fio output: the word it starts with, the digits that follow
\* "iops=" (none when the line has no "iops="), and the number of characters
\* left on the line after the digits
FioLines ==
    [word : {"write", "read"}, digits : {<<>>, <<"7">>, <<"1", "5">>}, tail : {0, 1}]

\* the text of fio's output file: empty, or one line
FioOutputs == {<<>>} \cup {<<l>> : l \in FioLines}

DropLast(q) == SubSeq(q, 1, Len(q) - 1)

\* re '<word>.+iops=(\d+).+' on one line: the final .+ needs one character,
\* which the greedy \d+ gives back when the digits end the line
FioLineMatch(word, l) ==
    IF l.word # word \/ l.digits = <<>> THEN None
    ELSE IF l.tail >= 1 THEN <<l.digits>>
    ELSE IF Len(l.digits) >= 2 THEN <<DropLast(l.digits)>>
    ELSE None

RECURSIVE FioSearch(_, _)
\* re.search(regexp, output): the first line that matches
FioSearch(word, lines) ==
    IF lines = <<>> THEN None
    ELSE IF FioLineMatch(word, Head(lines)) # None THEN FioLineMatch(word, Head(lines))
    ELSE FioSearch(word, Tail(lines))

\* ioping -B -D -c 3 output, split on whitespace.  Batch mode prints
\* requests, total usec, iops, bytes/s, min, avg, max, mdev.
IopingBatchLine == <<"3", "1200", "2500", "10240000", "380", "400", "430", "20">>

IopingOutputs ==
    {IopingBatchLine,
     <<"---", "/tmp", "(ext4", "/dev/sda1)", "ioping", "statistics", "---">>,
     <<"3", "requests", "completed">>,
     <<>>}

\* whether the text is the batch statistics line the latency is read from
IopingParseable(tokens) == tokens = IopingBatchLine

\* what a tool printed, tagged with the tool
NoOutput == [tool |-> "", body |-> <<>>]

----------------------------------------------------------------------------
(* Pure parts of the script *)

\* SizeFor with the long size taken as the host memory itself, not twice it
SizeFor_NotDoubled(mode, short, ram) ==
    IF mode = "short" THEN <<short, short * 1024>>
    ELSE <<ram, ram * 1024>>

\* __get_io_test_size: (size_m, size_k) for a recognised mode
SizeFor(mode, short, ram) ==
    IF mode = "short" THEN <<short, short * 1024>>
    ELSE <<ram * 2, (ram * 2) * 1024>>

\* the except clauses of __main__, tried in order: Exception,
\* CloudBenchException (a BaseException), KeyboardInterrupt
ExceptionSubclasses == {"CalledProcessError", "ValueError", "IndexError", "IOError"}

HandlerStatus(e) ==
    CASE e \in ExceptionSubclasses -> 1
      [] e = "CloudBenchException" -> 1
      [] e = "KeyboardInterrupt"   -> 1

\* socket.gethostname(): the name the host has at the time of the call
Hostnames == {"host-a", "host-b"}

----------------------------------------------------------------------------
(* The run *)

NoSize == <<>>

\* the with block of run_tests: the file f and the local hostname
ClosedReport == [opened |-> FALSE, closed |-> FALSE, lines |-> <<>>, hostname |-> ""]

Init ==
    /\ pc = "start"
    /\ args \in ArgsSet
    /\ aptIdx = 1
    /\ download_md5 = ""
    /\ configWritten = FALSE
    /\ phIdx = 1
    /\ phoronix_results = EmptyDict
    /\ size = NoSize
    /\ ioResults = EmptyDict
    /\ fioIdx = 1
    /\ fioJobs = <<>>
    /\ result = None
    /\ results = EmptyDict
    /\ report = ClosedReport
    /\ rowIdx = 1
    /\ invoked = <<>>
    /\ exc = ""
    /\ failedAt = ""
    /\ exitStatus = NotExited
    /\ output = NoOutput

depsVars  == <<aptIdx, download_md5>>
phVars    == <<configWritten, phIdx, phoronix_results>>
ioVars    == <<size, ioResults, fioIdx, fioJobs, result>>
outVars   == <<results, report, rowIdx>>
excVars   == <<exc, failedAt>>

\* an exception leaves the current function and reaches the except clauses
Raise(e) == pc' = "handler" /\ exc' = e /\ failedAt' = pc

Goto(l) == pc' = l /\ UNCHANGED excVars

\* subprocess.check_call / check_output: the command ran; exit is the status
\* of the named tool, status the one the shell reported to subprocess
\* sizes are the workload sizes on the command line, if any
InvokeSized(cmd, arg, sizes, exit, status) ==
    invoked' = Append(invoked, [cmd |-> cmd, arg |-> arg, sizes |-> sizes,
                                exit |-> exit, status |-> status])

Invoke(cmd, arg, exit, status) == InvokeSized(cmd, arg, <<>>, exit, status)

\* run(args)
Run ==
    /\ pc = "start"
    /\ Goto(IF args.deps THEN "apt" ELSE "run_tests")
    /\ UNCHANGED <<args, depsVars, phVars, ioVars, outVars, invoked, exitStatus, output>>

\* install_deps: apt-get install of one required package
AptInstall ==
    /\ pc = "apt"
    /\ \E exit \in ExitCodes :
        /\ Invoke("apt-get", PACKAGES_REQUIRED[aptIdx], exit, exit)
        /\ IF exit # 0
           THEN Raise("CalledProcessError") /\ UNCHANGED aptIdx
           ELSE /\ aptIdx' = aptIdx + 1
                /\ Goto(IF aptIdx = Len(PACKAGES_REQUIRED) THEN "wget" ELSE "apt")
    /\ UNCHANGED <<args, download_md5, phVars, ioVars, outVars, exitStatus, output>>

\* install_deps: download of the phoronix package
Wget ==
    /\ pc = "wget"
    /\ \E exit \in ExitCodes :
        /\ Invoke("wget", "/tmp/phoronix.deb", exit, exit)
        /\ IF exit # 0 THEN Raise("CalledProcessError") ELSE Goto("md5")
    /\ UNCHANGED <<args, depsVars, phVars, ioVars, outVars, exitStatus, output>>

\* install_deps: the digest is computed and a mismatch is logged
Md5Check ==
    /\ pc = "md5"
    /\ download_md5' \in {PHORONIX_MD5, "d41d8cd98f00b204e9800998ecf8427e"}
    /\ Goto("dpkg")
    /\ UNCHANGED <<args, aptIdx, phVars, ioVars, outVars, invoked, exitStatus, output>>

\* install_deps: dpkg -i of the downloaded package
Dpkg ==
    /\ pc = "dpkg"
    /\ \E exit \in ExitCodes :
        /\ Invoke("dpkg", "/tmp/phoronix.deb", exit, exit)
        /\ IF exit # 0 THEN Raise("CalledProcessError") ELSE Goto("batch_setup")
    /\ UNCHANGED <<args, depsVars, phVars, ioVars, outVars, exitStatus, output>>

\* install_deps: phoronix-test-suite batch-setup, fed by echo
BatchSetup ==
    /\ pc = "batch_setup"
    /\ \E exit \in ExitCodes :
        /\ Invoke("phoronix batch-setup", "", exit, exit)
        /\ IF exit # 0 THEN Raise("CalledProcessError") ELSE Goto("run_tests")
    /\ UNCHANGED <<args, depsVars, phVars, ioVars, outVars, exitStatus, output>>

\* RunTests with the two families called in the other order: the I/O family
\* starts first
RunTests_IoFamilyFirst ==
    /\ pc = "run_tests"
    /\ results' = EmptyDict
    /\ Goto("get_size")
    /\ UNCHANGED <<args, depsVars, phVars, ioVars, report, rowIdx, invoked, exitStatus, output>>

\* run_tests: results = {}
RunTests ==
    /\ pc = "run_tests"
    /\ results' = EmptyDict
    /\ Goto("write_config")
    /\ UNCHANGED <<args, depsVars, phVars, ioVars, report, rowIdx, invoked, exitStatus, output>>

\* a write whose failure is ignored: the tests go on without the document
WriteUserConfig_IgnoreFailure ==
    /\ pc = "write_config"
    /\ \E ok \in BOOLEAN : configWritten' = ok
    /\ Goto("ph_install")
    /\ phIdx' = 1
    /\ phoronix_results' = EmptyDict
    /\ UNCHANGED <<args, depsVars, ioVars, outVars, invoked, exitStatus, output>>

\* _run_tests_phoronix: the user-config.xml document is written; open()
\* fails when ~/.phoronix-test-suite does not exist
WriteUserConfig ==
    /\ pc = "write_config"
    /\ \E ok \in BOOLEAN :
        IF ok
        THEN configWritten' = TRUE /\ Goto("ph_install")
        ELSE Raise("IOError") /\ UNCHANGED configWritten
    /\ phIdx' = 1
    /\ phoronix_results' = EmptyDict
    /\ UNCHANGED <<args, depsVars, ioVars, outVars, invoked, exitStatus, output>>

\* __run_phoronix_test: phoronix-test-suite install <test>
PhoronixInstall ==
    /\ pc = "ph_install"
    /\ \E exit \in ExitCodes :
        /\ Invoke("phoronix install", REQUIRED_PHORONIX_TESTS[phIdx].test, exit, exit)
        /\ IF exit # 0 THEN Raise("CalledProcessError") ELSE Goto("ph_run")
    /\ UNCHANGED <<args, depsVars, phVars, ioVars, outVars, exitStatus, output>>

\* __run_phoronix_test: batch-run, search of the output, and the update of
\* phoronix_results by the caller's loop
PhoronixBatchRun ==
    /\ pc = "ph_run"
    /\ \E exit \in ExitCodes, text \in PhoronixOutputs :
        LET t == REQUIRED_PHORONIX_TESTS[phIdx]
            m == PhoronixSearch(text)
        IN /\ Invoke("phoronix batch-run", t.test, exit, exit)
           /\ output' = [tool |-> "phoronix", body |-> <<text>>]
           /\ IF exit # 0
              THEN Raise("CalledProcessError") /\ UNCHANGED <<phIdx, phoronix_results>>
              ELSE IF m = None
              THEN Raise("CloudBenchException") /\ UNCHANGED <<phIdx, phoronix_results>>
              ELSE /\ phoronix_results' =
                        DictSet(phoronix_results, t.test, t.name,
                                [kind |-> "raw", text |-> <<m[1]>>, w |-> 0, r |-> 0])
                   /\ phIdx' = phIdx + 1
                   /\ Goto(IF phIdx = Len(REQUIRED_PHORONIX_TESTS)
                           THEN "ph_return" ELSE "ph_install")
    /\ UNCHANGED <<args, depsVars, configWritten, ioVars, outVars, exitStatus>>

\* run_tests: results.update(_run_tests_phoronix(args))
PhoronixReturn ==
    /\ pc = "ph_return"
    /\ results' = DictUpdate(results, phoronix_results)
    /\ Goto("get_size")
    /\ UNCHANGED <<args, depsVars, phVars, ioVars, report, rowIdx, invoked, exitStatus, output>>

\* a derivation that takes every mode other than short for long
GetIoTestSize_AnyModeIsLong ==
    /\ pc = "get_size"
    /\ \E q \in MemQueryOutcomes :
        /\ Invoke("free", "", q.exit, 0)
        /\ output' = [tool |-> "free", body |-> <<q>>]
        /\ IF ~q.digits
           THEN Raise("ValueError") /\ UNCHANGED size
           ELSE /\ size' = SizeFor(IF args.iobench_type = "short" THEN "short" ELSE "long",
                                   args.iobench_short_size, q.ram)
                /\ Goto("iozone")
    /\ UNCHANGED <<args, depsVars, phVars, ioResults, fioIdx, fioJobs, result,
                   outVars, exitStatus>>

\* __get_io_test_size: the memory query runs first, then the mode decides
GetIoTestSize ==
    /\ pc = "get_size"
    /\ \E q \in MemQueryOutcomes :
        /\ Invoke("free", "", q.exit, 0)
        /\ output' = [tool |-> "free", body |-> <<q>>]
        /\ IF ~q.digits
           THEN Raise("ValueError") /\ UNCHANGED size
           ELSE IF args.iobench_type \in {"short", "long"}
           THEN /\ size' = SizeFor(args.iobench_type, args.iobench_short_size, q.ram)
                /\ Goto("iozone")
           ELSE Raise("CloudBenchException") /\ UNCHANGED size
    /\ UNCHANGED <<args, depsVars, phVars, ioResults, fioIdx, fioJobs, result,
                   outVars, exitStatus>>

\* the sizes on the iozone command line: -g <size_m>m, -n <size_m>m, and the
\* row selector grep <size_k>
IozoneSizes(size_m, size_k) == [g |-> size_m, n |-> size_m, grep |-> size_k]

\* __run_iobench_test: results = {}, then the iozone pipeline and its columns
\* iozone exits with exit after printing lines
IozoneOf(exit, lines) ==
    /\ pc = "iozone"
    /\ LET status   == PipelineStatus(exit, lines)
           captured == GrepFilter(lines)
           cols     == SplitCols(captured, size[2])
       IN /\ InvokeSized("iozone", "", IozoneSizes(size[1], size[2]), exit, status)
          /\ IF status # 0
             THEN Raise("CalledProcessError") /\ ioResults' = EmptyDict
             ELSE IF Len(cols) < 5
             THEN Raise("IndexError") /\ ioResults' = EmptyDict
             ELSE /\ ioResults' = DictSet(EmptyDict, "iozone", "IOZone I/O Throughput Test",
                                          IozoneResult(cols))
                  /\ Goto("fio_job")
    /\ fioIdx' = 1
    /\ UNCHANGED <<args, depsVars, phVars, size, fioJobs, result, outVars, exitStatus>>

Iozone ==
    /\ pc = "iozone"
    /\ \E exit \in ExitCodes, lines \in IozoneOutputs :
          /\ IozoneOf(exit, lines)
          /\ output' = [tool |-> "iozone", body |-> GrepFilter(lines)]

\* the job file /tmp/<fio_hdr>.fio written for a fio test: its comment line
\* and its key=value lines
FioJobFile(t, size_m) ==
    [test_name |-> t.test_name, hdr |-> t.fio_hdr, rw |-> t.fio_rw, size_m |-> size_m,
     blocksize |-> t.fio_blocksize, ioengine |-> t.fio_ioengine]

\* the body of the fio loop for test t, first half: the job file is written
\* a job file whose size= line is the configured short size, not the derived one
FioWriteJobOf_ShortSize(t) ==
    /\ pc = "fio_job"
    /\ fioJobs' = Append(fioJobs, FioJobFile(t, args.iobench_short_size))
    /\ Goto("fio_run")
    /\ UNCHANGED <<args, depsVars, phVars, size, ioResults, fioIdx, result, outVars,
                   invoked, exitStatus, output>>

FioWriteJobOf(t) ==
    /\ pc = "fio_job"
    /\ fioJobs' = Append(fioJobs, FioJobFile(t, size[1]))
    /\ Goto("fio_run")
    /\ UNCHANGED <<args, depsVars, phVars, size, ioResults, fioIdx, result, outVars,
                   invoked, exitStatus, output>>

\* the body of the fio loop for test t, second half: fio runs on the job
\* file, its output file is searched and the result recorded; more tells
\* whether the loop has another test
FioRunOf(t, more) ==
    /\ pc = "fio_run"
    /\ \E exit \in ExitCodes, lines \in FioOutputs :
        LET m == FioSearch(t.word, lines)
        IN /\ Invoke("fio", t.fio_hdr, exit, exit)
           /\ output' = [tool |-> "fio", body |-> lines]
           /\ IF exit # 0
              THEN Raise("CalledProcessError") /\ UNCHANGED <<ioResults, fioIdx, result>>
              ELSE /\ result' = m
                   /\ IF m = None
                      THEN Raise("CloudBenchException") /\ UNCHANGED <<ioResults, fioIdx>>
                      ELSE /\ ioResults' =
                                DictSet(ioResults, t.fio_hdr, t.test_name,
                                        [kind |-> "IOPS", text |-> m[1], w |-> 0, r |-> 0])
                           /\ fioIdx' = fioIdx + 1
                           /\ Goto(IF more THEN "fio_job" ELSE "ioping")
    /\ UNCHANGED <<args, depsVars, phVars, size, fioJobs, outVars, exitStatus>>

\* __run_iobench_test: the job file /tmp/<fio_hdr>.fio of one fio test
FioWriteJob == FioWriteJobOf(REQUIRED_FIO_TESTS[fioIdx])

\* __run_iobench_test: fio on the job file, search of its output file
FioRun == FioRunOf(REQUIRED_FIO_TESTS[fioIdx], fioIdx < Len(REQUIRED_FIO_TESTS))

\* __run_iobench_test: ioping; the check before the result tests "result",
\* the match of the last fio test, and the latency is the sixth word
Ioping ==
    /\ pc = "ioping"
    /\ \E exit \in ExitCodes, ping_results \in IopingOutputs :
        /\ Invoke("ioping", "", exit, exit)
        /\ output' = [tool |-> "ioping", body |-> ping_results]
        /\ IF exit # 0
           THEN Raise("CalledProcessError") /\ UNCHANGED ioResults
           ELSE IF result = None
           THEN Raise("CloudBenchException") /\ UNCHANGED ioResults
           ELSE IF Len(ping_results) < 6
           THEN Raise("IndexError") /\ UNCHANGED ioResults
           ELSE /\ ioResults' =
                     DictSet(ioResults, "ioping", "IOPing Write Latency Test",
                             [kind |-> "usec", text |-> <<ping_results[6]>>, w |-> 0, r |-> 0])
                /\ Goto("io_return")
    /\ UNCHANGED <<args, depsVars, phVars, size, fioIdx, fioJobs, result, outVars, exitStatus>>

\* run_tests: results.update(_run_tests_iobench(args))
IobenchReturn ==
    /\ pc = "io_return"
    /\ results' = DictUpdate(results, ioResults)
    /\ Goto("open_report")
    /\ UNCHANGED <<args, depsVars, phVars, ioVars, report, rowIdx, invoked, exitStatus, output>>

\* run_tests: open(PATH_RESULT_CSV, 'w') truncates the file
OpenReport ==
    /\ pc = "open_report"
    /\ report' = [opened |-> TRUE, closed |-> FALSE, lines |-> <<>>, hostname |-> ""]
    /\ Goto("write_header")
    /\ UNCHANGED <<args, depsVars, phVars, ioVars, results, rowIdx, invoked, exitStatus, output>>

HeaderLine ==
    [hostname |-> "hostname", test_name |-> "test_name",
     test_description |-> "test_description",
     test_result |-> [kind |-> "header", text |-> <<"test_result">>, w |-> 0, r |-> 0]]

\* run_tests: the hostname is looked up and the header line written
WriteHeader ==
    /\ pc = "write_header"
    /\ \E h \in Hostnames :
          report' = [report EXCEPT !.hostname = h, !.lines = Append(@, HeaderLine)]
    /\ rowIdx' = 1
    /\ Goto("write_row")
    /\ UNCHANGED <<args, depsVars, phVars, ioVars, results, invoked, exitStatus, output>>

\* a loop that looks the hostname up again for every row
WriteRow_HostnamePerRow ==
    /\ pc = "write_row"
    /\ LET keys == DictKeys(results)
       IN IF rowIdx <= Len(keys)
          THEN LET k == keys[rowIdx]
               IN /\ \E h \in Hostnames :
                     report' = [report EXCEPT !.lines =
                        Append(@, [hostname |-> h, test_name |-> k,
                                   test_description |-> DictGet(results, k).name,
                                   test_result |-> DictGet(results, k).result])]
                  /\ rowIdx' = rowIdx + 1
                  /\ Goto("write_row")
          ELSE /\ report' = [report EXCEPT !.closed = TRUE]
               /\ UNCHANGED rowIdx
               /\ Goto("exit0")
    /\ UNCHANGED <<args, depsVars, phVars, ioVars, results, invoked, exitStatus, output>>

\* run_tests: one row per key of results.keys(); after the last one the
\* with block closes the file
WriteRow ==
    /\ pc = "write_row"
    /\ LET keys == DictKeys(results)
       IN IF rowIdx <= Len(keys)
          THEN LET k == keys[rowIdx]
               IN /\ report' = [report EXCEPT !.lines =
                        Append(@, [hostname |-> report.hostname, test_name |-> k,
                                   test_description |-> DictGet(results, k).name,
                                   test_result |-> DictGet(results, k).result])]
                  /\ rowIdx' = rowIdx + 1
                  /\ Goto("write_row")
          ELSE /\ report' = [report EXCEPT !.closed = TRUE]
               /\ UNCHANGED rowIdx
               /\ Goto("exit0")
    /\ UNCHANGED <<args, depsVars, phVars, ioVars, results, invoked, exitStatus, output>>

\* __main__: sys.exit(0) after run(args) returned
Exit0 ==
    /\ pc = "exit0"
    /\ exitStatus' = 0
    /\ Goto("exited")
    /\ UNCHANGED <<args, depsVars, phVars, ioVars, outVars, invoked, output>>

\* __main__: the except clause that catches exc calls sys.exit
Handler ==
    /\ pc = "handler"
    /\ exitStatus' = HandlerStatus(exc)
    /\ Goto("exited")
    /\ UNCHANGED <<args, depsVars, phVars, ioVars, outVars, invoked, output>>

\* a KeyboardInterrupt raised between two steps of the run; a with block
\* being left closes its file
Interrupt ==
    /\ pc \notin {"handler", "exited"}
    /\ Raise("KeyboardInterrupt")
    /\ report' = IF report.opened THEN [report EXCEPT !.closed = TRUE] ELSE report
    /\ UNCHANGED <<args, depsVars, phVars, ioVars, results, rowIdx, invoked, exitStatus, output>>

Next ==
    \/ Run
    \/ AptInstall
    \/ Wget
    \/ Md5Check
    \/ Dpkg
    \/ BatchSetup
    \/ RunTests
    \/ WriteUserConfig
    \/ PhoronixInstall
    \/ PhoronixBatchRun
    \/ PhoronixReturn
    \/ GetIoTestSize
    \/ Iozone
    \/ FioWriteJob
    \/ FioRun
    \/ Ioping
    \/ IobenchReturn
    \/ OpenReport
    \/ WriteHeader
    \/ WriteRow
    \/ Exit0
    \/ Handler
    \/ Interrupt

Spec == Init /\ [][Next]_vars

----------------------------------------------------------------------------
(* Vocabulary of the properties *)

ComputeTools == {"phoronix install", "phoronix batch-run"}

IoTools == {"free", "iozone", "fio", "ioping"}

BenchmarkTools == {"phoronix install", "phoronix batch-run", "iozone", "fio", "ioping"}

ComputeKeys == {REQUIRED_PHORONIX_TESTS[i].test : i \in DOMAIN REQUIRED_PHORONIX_TESTS}

FioKeys == {REQUIRED_FIO_TESTS[i].fio_hdr : i \in DOMAIN REQUIRED_FIO_TESTS}

TestKeys == ComputeKeys \cup {"iozone"} \cup FioKeys \cup {"ioping"}

\* the result identifier an invocation produces, "" for a command that
\* produces none
KeyOf(inv) ==
    CASE inv.cmd = "phoronix batch-run" -> inv.arg
      [] inv.cmd = "fio"                -> inv.arg
      [] inv.cmd = "iozone"             -> "iozone"
      [] inv.cmd = "ioping"             -> "ioping"
      [] OTHER                          -> ""

\* the identifier of the test an invocation belongs to
TestOf(inv) == IF inv.cmd = "phoronix install" THEN inv.arg ELSE KeyOf(inv)

Recorded(key) == DictHas(phoronix_results, key) \/ DictHas(ioResults, key) \/ DictHas(results, key)

LastInvoked == invoked[Len(invoked)]

\* some external tool of the run exited with a non-zero status
ToolFailed == \E i \in DOMAIN invoked : invoked[i].exit # 0

FioWord(hdr) ==
    LET i == CHOOSE j \in DOMAIN REQUIRED_FIO_TESTS : REQUIRED_FIO_TESTS[j].fio_hdr = hdr
    IN REQUIRED_FIO_TESTS[i].word

\* the text captured from the last tool does not hold the figure its test
\* reports
OutputLacksResult ==
    CASE output.tool = "phoronix" -> ~output.body[1].average
      [] output.tool = "iozone"   -> \A i \in DOMAIN output.body : output.body[i].ncols < 5
      [] output.tool = "fio"      ->
            \A i \in DOMAIN output.body :
                \/ output.body[i].word # FioWord(LastInvoked.arg)
                \/ output.body[i].digits = <<>>
      [] output.tool = "ioping"   -> ~IopingParseable(output.body)
      [] OTHER                    -> FALSE

AllTestsRecorded == \A k \in TestKeys : DictHas(results, k)

ReportRows == IF report.lines = <<>> THEN <<>> ELSE Tail(report.lines)

ReportWritten ==
    /\ report.opened /\ report.closed
    /\ Len(report.lines) = 1 + DictLen(results)

\* the identifiers of the recorded tests in the order their tools ran
RECURSIVE ExecutionOrderFrom(_)
ExecutionOrderFrom(log) ==
    IF log = <<>> THEN <<>>
    ELSE (IF KeyOf(Head(log)) # "" /\ Recorded(KeyOf(Head(log)))
          THEN <<KeyOf(Head(log))>> ELSE <<>>) \o ExecutionOrderFrom(Tail(log))

ExecutionOrder == ExecutionOrderFrom(invoked)

\* phase of the orchestrator (run_tests): the position of the script, and
\* Failed once an exception left one of the two families
NotStartedPcs == {"start", "apt", "wget", "md5", "dpkg", "batch_setup", "run_tests"}
ComputePcs    == {"write_config", "ph_install", "ph_run", "ph_return"}
IoPcs         == {"get_size", "iozone", "fio_job", "fio_run", "ioping", "io_return"}

PhaseOf(l) ==
    IF l \in NotStartedPcs THEN "NotStarted"
    ELSE IF l \in ComputePcs THEN "ComputeFamilyRunning"
    ELSE IF l \in IoPcs THEN "IOFamilyRunning"
    ELSE "Completed"

Phase ==
    IF exc = "" THEN PhaseOf(pc)
    ELSE IF failedAt \in ComputePcs \cup IoPcs THEN "Failed"
    ELSE PhaseOf(failedAt)

----------------------------------------------------------------------------
(* Claims *)

\* C1: the report file is opened or written only after every compute test
\* and every I/O test has finished and recorded a result; and in a run in
\* which a tool invocation, the size derivation or an extraction failed, or
\* which was interrupted, the report file is never opened, truncated or
\* written.
C1_ReportOnlyAfterFullSuccess ==
    /\ (report.opened \/ report.lines # <<>>) => AllTestsRecorded
    /\ (exc # "" \/ ToolFailed) => (~report.opened /\ report.lines = <<>>)

\* C2: the exit status is 0 exactly when the run completed every test and
\* wrote the report, and it is 1 for every failure: an exception of any kind
\* (invalid mode, tool error, extraction error, interrupt) or an external
\* tool that exited non-zero; no other status occurs.
C2_ExitStatusContract ==
    pc = "exited" =>
        /\ exitStatus \in {0, 1}
        /\ (exitStatus = 0) <=> (AllTestsRecorded /\ ReportWritten /\ exc = "")
        /\ (exc # "" \/ ToolFailed) => exitStatus = 1

\* C3: for every test, when the tool exited zero but the captured output
\* does not hold the expected result, the run fails with the extraction
\* error CloudBenchException and no result is recorded for that test.
C3_UnparseableOutputIsExtractionError ==
    (/\ invoked # <<>>
     /\ output.tool # ""
     /\ KeyOf(LastInvoked) # ""
     /\ LastInvoked.exit = 0
     /\ OutputLacksResult)
    => (exc = "CloudBenchException" /\ ~Recorded(KeyOf(LastInvoked)))

\* C4: for every benchmark tool the run invokes (phoronix install, phoronix
\* batch-run, iozone, fio, ioping), a non-zero exit of the tool ends the run
\* with CalledProcessError, it is the last command of the run, and no result
\* is recorded for its test.
C4_NonZeroExitNeverSwallowed ==
    \A i \in DOMAIN invoked :
        (invoked[i].cmd \in BenchmarkTools /\ invoked[i].exit # 0)
        => /\ i = Len(invoked)
           /\ exc = "CalledProcessError"
           /\ ~Recorded(TestOf(invoked[i]))

PhaseMoves ==
    {<<"NotStarted", "ComputeFamilyRunning">>,
     <<"ComputeFamilyRunning", "IOFamilyRunning">>,
     <<"IOFamilyRunning", "Completed">>,
     <<"ComputeFamilyRunning", "Failed">>,
     <<"IOFamilyRunning", "Failed">>}

\* the commands run so far are compute-family commands followed by
\* I/O-family commands, and an I/O-family command has run only if every
\* compute test holds a result
FamilyOrder ==
    /\ \A i, j \in DOMAIN invoked :
          (i < j /\ invoked[i].cmd \in IoTools) => invoked[j].cmd \notin ComputeTools
    /\ (\E i \in DOMAIN invoked : invoked[i].cmd \in IoTools)
          => \A k \in ComputeKeys : DictHas(phoronix_results, k)

\* C5: the phase of the run moves only NotStarted -> ComputeFamilyRunning ->
\* IOFamilyRunning -> Completed, or from a running phase to Failed, and
\* Completed and Failed are never left; no I/O-family tool (memory query,
\* iozone, fio, ioping) runs before every compute test returned a result and
\* no compute-family tool runs after an I/O-family tool.
C5_PhaseOrder ==
    [][/\ Phase' # Phase => <<Phase, Phase'>> \in PhaseMoves
       /\ FamilyOrder']_vars

\* C5 witness: a completed run in which both families ran their tools
C5_Witness ==
    /\ Phase = "Completed"
    /\ \E i \in DOMAIN invoked : invoked[i].cmd \in ComputeTools
    /\ \E i \in DOMAIN invoked : invoked[i].cmd = "ioping"

\* a failure has happened in the run: an exception was raised or a tool
\* exited non-zero
RunFailed == exc # "" \/ ToolFailed

\* C6: fail-fast without retry: once a tool invocation or an extraction has
\* failed no further external command is invoked, and no command is invoked
\* twice in a run.
C6_FailFastNoRetry ==
    [][/\ RunFailed => invoked' = invoked
       /\ \A i, j \in DOMAIN invoked' :
             (invoked'[i].cmd = invoked'[j].cmd /\ invoked'[i].arg = invoked'[j].arg) => i = j]_vars

\* the size derivation returned: __get_io_test_size ran and raised nothing
SizeDerived == pc = "get_size" /\ pc' = "iozone"

\* C7: __get_io_test_size returns sizeMegabytes = the configured short size
\* in mode short, whatever the host memory is, and 2 x hostMemoryMB in mode
\* long; in both modes sizeKilobytes = sizeMegabytes x 1024, both are
\* returned together and neither is negative; short/512 gives
\* (512, 524288) and long with 2048 MB gives (4096, 4194304).
C7_DerivedSize ==
    [][SizeDerived =>
        LET ram == output'.body[1].ram
        IN /\ Len(size') = 2
           /\ args.iobench_type = "short" => size'[1] = args.iobench_short_size
           /\ args.iobench_type = "long" => size'[1] = 2 * ram
           /\ size'[2] = size'[1] * 1024
           /\ size'[1] >= 0 /\ size'[2] >= 0
           /\ (args.iobench_type = "short" /\ args.iobench_short_size = 512)
                 => size' = <<512, 524288>>
           /\ (args.iobench_type = "long" /\ ram = 2048) => size' = <<4096, 4194304>>]_vars

\* C7 witness: long mode on a host of 2048 MB derived (4096, 4194304)
C7_Witness ==
    /\ args.iobench_type = "long"
    /\ size = <<4096, 4194304>>
    /\ pc = "iozone"

\* a step of __get_io_test_size (not an interrupt arriving before it)
SizeStep == pc = "get_size" /\ pc' # pc /\ exc' # "KeyboardInterrupt"

\* C8: __get_io_test_size called with a mode other than short or long fails
\* with CloudBenchException and has no side effect: it invokes no external
\* command (the memory query included), writes no file, records no result.
C8_InvalidModeNoSideEffects ==
    [][(SizeStep /\ args.iobench_type \notin {"short", "long"}) =>
        /\ exc' = "CloudBenchException"
        /\ invoked' = invoked
        /\ fioJobs' = fioJobs /\ report' = report
        /\ results' = results /\ ioResults' = ioResults]_vars

\* C9: in mode short the derived size does not depend on the host memory
\* query: whatever the query reports, and also when it fails, the derivation
\* returns (short size, short size x 1024) and does not fail.
C9_ShortIndependentOfMemory ==
    [][(SizeStep /\ args.iobench_type = "short") =>
        /\ exc' = ""
        /\ size' = <<args.iobench_short_size, args.iobench_short_size * 1024>>]_vars

RECURSIVE IsPrefix(_, _)
IsPrefix(p, q) ==
    IF p = <<>> THEN TRUE
    ELSE IF q = <<>> THEN FALSE
    ELSE Head(p) = Head(q) /\ IsPrefix(Tail(p), Tail(q))

\* C10: the iteration order of the result set is the order in which the
\* tests ran, and the report rows are written in that order: the compute
\* test, iozone, random-write, random-read, ioping.
C10_ReportInExecutionOrder ==
    /\ DictKeys(results) # <<>> => IsPrefix(DictKeys(results), ExecutionOrder)
    /\ IsPrefix([i \in DOMAIN ReportRows |-> ReportRows[i].test_name], ExecutionOrder)
    /\ ReportWritten =>
          [i \in DOMAIN ReportRows |-> ReportRows[i].test_name] =
          <<"pts/build-linux-kernel", "iozone", "random-write", "random-read", "ioping">>

----------------------------------------------------------------------------
(* The I/O family over a registry whose identifiers may collide: the fio  *)
(* loop of __run_iobench_test run over descriptors that reuse identifiers *)
(* of other tests, from the state a successful iozone test leaves.        *)

\* number of fio descriptors in the registry
MaxRegistryTests == 3

\* the descriptor commented out at line 61, declared under identifier h
SeqReadAs(h) ==
    [test_name |-> "FIO sequential reads using 16 blocks", fio_hdr |-> h,
     fio_rw |-> "read", fio_blocksize |-> "16k", fio_ioengine |-> "", word |-> "read"]

CollidingFioTests ==
    {REQUIRED_FIO_TESTS[i] : i \in DOMAIN REQUIRED_FIO_TESTS}
    \cup {SeqReadAs(h) : h \in {"random-read", "iozone", "pts/build-linux-kernel"}}

InitCollision ==
    /\ pc = "fio_job"
    /\ args = [deps |-> FALSE, iobench_type |-> "short", iobench_short_size |-> 512]
    /\ aptIdx = 1
    /\ download_md5 = ""
    /\ configWritten = TRUE
    /\ phIdx = 2
    /\ phoronix_results =
          DictSet(EmptyDict, "pts/build-linux-kernel", "Multicore Kernel Compile (seconds)",
                  [kind |-> "raw", text |-> <<"98">>, w |-> 0, r |-> 0])
    /\ size = SizeFor("short", 512, 2048)
    /\ ioResults = DictSet(EmptyDict, "iozone", "IOZone I/O Throughput Test",
                           [kind |-> "iozone", text |-> <<>>, w |-> 2, r |-> 1])
    /\ fioIdx = 1
    /\ fioJobs = <<>>
    /\ result = None
    /\ results = DictUpdate(EmptyDict, phoronix_results)
    /\ report = ClosedReport
    /\ rowIdx = 1
    /\ invoked =
          << [cmd |-> "phoronix install", arg |-> "pts/build-linux-kernel", sizes |-> <<>>,
              exit |-> 0, status |-> 0],
             [cmd |-> "phoronix batch-run", arg |-> "pts/build-linux-kernel", sizes |-> <<>>,
              exit |-> 0, status |-> 0],
             [cmd |-> "free", arg |-> "", sizes |-> <<>>, exit |-> 0, status |-> 0],
             [cmd |-> "iozone", arg |-> "", sizes |-> IozoneSizes(size[1], size[2]),
              exit |-> 0, status |-> 0] >>
    /\ exc = ""
    /\ failedAt = ""
    /\ exitStatus = NotExited
    /\ output = [tool |-> "iozone",
                 body |-> << [hasSize |-> TRUE, label |-> "", ncols |-> 5,
                              write |-> 2048, read |-> 1024] >>]

\* the fio loop takes the next descriptor of the registry
AnyFioWriteJob ==
    /\ pc = "fio_job"
    /\ Len(fioJobs) < MaxRegistryTests
    /\ \E t \in CollidingFioTests : FioWriteJobOf(t)

\* the fio loop runs the descriptor whose job file was just written
AnyFioRun ==
    /\ pc = "fio_run"
    /\ \E t \in CollidingFioTests, more \in BOOLEAN :
        /\ fioJobs # <<>>
        /\ FioJobFile(t, size[1]) = fioJobs[Len(fioJobs)]
        /\ more => Len(fioJobs) < MaxRegistryTests
        /\ FioRunOf(t, more)

NextCollision ==
    \/ AnyFioWriteJob
    \/ AnyFioRun
    \/ Ioping
    \/ IobenchReturn

CollisionSpec == InitCollision /\ [][NextCollision]_vars

KeyCount(d, key) == Cardinality({s \in Slots : d[s].key = key})

SlotOf(d, key) == CHOOSE s \in Slots : d[s].key = key

RECURSIVE IsSubSeq(_, _)
\* p is q with some elements left out
IsSubSeq(p, q) ==
    IF p = <<>> THEN TRUE
    ELSE IF q = <<>> THEN FALSE
    ELSE IF Head(p) = Head(q) THEN IsSubSeq(Tail(p), Tail(q))
    ELSE IsSubSeq(p, Tail(q))

\* a test recorded its result in the dict of __run_iobench_test
RecordStep == pc \in {"fio_run", "ioping"} /\ pc' \in {"fio_job", "ioping", "io_return"}

\* the key and the entry a record step wrote
WrittenKey == IF pc = "ioping" THEN "ioping" ELSE fioJobs[Len(fioJobs)].hdr

WrittenName ==
    IF pc = "ioping" THEN "IOPing Write Latency Test" ELSE fioJobs[Len(fioJobs)].test_name

WrittenResult ==
    IF pc = "ioping"
    THEN [kind |-> "usec", text |-> <<output'.body[6]>>, w |-> 0, r |-> 0]
    ELSE [kind |-> "IOPS", text |-> result'[1], w |-> 0, r |-> 0]

\* C11: when a later test records a result under an identifier that is
\* already in the result set, the result set still holds exactly one entry
\* for the identifier, the entry holds the later test's display name and
\* value, and it stays where the first entry was: the entry keeps its place
\* and the order of the entries already present does not change.  This
\* holds for a test's own update and for the merge into run_tests' results.
C11_LastWriteWinsInPlace ==
    [][/\ (RecordStep /\ DictHas(ioResults, WrittenKey)) =>
            /\ KeyCount(ioResults', WrittenKey) = 1
            /\ DictGet(ioResults', WrittenKey).name = WrittenName
            /\ DictGet(ioResults', WrittenKey).result = WrittenResult
            /\ SlotOf(ioResults', WrittenKey) = SlotOf(ioResults, WrittenKey)
            /\ DictKeys(ioResults') = DictKeys(ioResults)
       /\ pc = "io_return" /\ pc' = "open_report" =>
            \A k \in TestKeys :
                (DictHas(results, k) /\ DictHas(ioResults, k)) =>
                    /\ KeyCount(results', k) = 1
                    /\ DictGet(results', k).name = DictGet(ioResults, k).name
                    /\ DictGet(results', k).result = DictGet(ioResults, k).result
                    /\ SlotOf(results', k) = SlotOf(results, k)
                    /\ IsSubSeq(DictKeys(results), DictKeys(results'))]_vars

\* C11 witness: two fio tests declared under one identifier have both
\* recorded, and the entry is the second test's
C11_Witness ==
    /\ Len(fioJobs) = 2
    /\ fioJobs[1].hdr = fioJobs[2].hdr
    /\ fioJobs[1].test_name # fioJobs[2].test_name
    /\ pc \in {"fio_job", "ioping"}
    /\ exc = ""
    /\ DictGet(ioResults, fioJobs[2].hdr).name = fioJobs[2].test_name

----------------------------------------------------------------------------
\* the tools of the I/O family that take a workload
IoFamilyTools == {"iozone", "fio", "ioping"}

MemoryQueries == {i \in DOMAIN invoked : invoked[i].cmd = "free"}

\* the state holds one derived pair and every use of a size made so far is
\* a use of that pair
SizeUsesAgree ==
    /\ Cardinality(MemoryQueries) <= 1
    /\ exitStatus = 0 => Cardinality(MemoryQueries) = 1
    /\ \A i \in DOMAIN invoked :
          invoked[i].cmd \in IoFamilyTools =>
              /\ size # NoSize
              /\ \E j \in MemoryQueries : j < i
    /\ \A i \in DOMAIN invoked :
          invoked[i].cmd = "iozone" =>
              invoked[i].sizes = [g |-> size[1], n |-> size[1], grep |-> size[2]]
    /\ \A i \in DOMAIN fioJobs : fioJobs[i].size_m = size[1]

\* C12: the workload size is derived once per run: there is one memory
\* query (exactly one in a successful run), made before any I/O-family tool
\* is invoked, the derived pair never changes afterwards, and the iozone
\* -g/-n sizes, the iozone row selector and the size= line of every fio job
\* file are the members of that pair.
C12_OneSizePerRun ==
    [][/\ size # NoSize => size' = size
       /\ SizeUsesAgree']_vars

\* C12 witness: a successful run in mode long, where the derived size is not
\* the configured one, has run iozone and written both fio job files
C12_Witness ==
    /\ exitStatus = 0
    /\ args.iobench_type = "long"
    /\ size[1] # args.iobench_short_size
    /\ Len(fioJobs) = 2
    /\ \E i \in DOMAIN invoked : invoked[i].cmd = "iozone"

----------------------------------------------------------------------------
(* The iozone step on output that holds a block of rows for the           *)
(* configured size, from the state a successful size derivation leaves.   *)

\* number of lines iozone prints
MaxBlockLines == 3

\* rows that hold the configured size, with or without one of the words
\* the pipeline excludes, a row cut short, and a row for another size
BlockLines ==
    [hasSize : {TRUE}, label : {"", "maximum", "minimum"}, ncols : {5},
     write : {2048, 4096}, read : {1024, 3072}]
    \cup {[hasSize |-> TRUE, label |-> "", ncols |-> 2, write |-> 0, read |-> 0],
          [hasSize |-> FALSE, label |-> "", ncols |-> 5, write |-> 4096, read |-> 3072]}

InitFilter ==
    /\ pc = "iozone"
    /\ args = [deps |-> FALSE, iobench_type |-> "short", iobench_short_size |-> 512]
    /\ aptIdx = 1
    /\ download_md5 = ""
    /\ configWritten = TRUE
    /\ phIdx = 2
    /\ phoronix_results =
          DictSet(EmptyDict, "pts/build-linux-kernel", "Multicore Kernel Compile (seconds)",
                  [kind |-> "raw", text |-> <<"98">>, w |-> 0, r |-> 0])
    /\ size = SizeFor("short", 512, 2048)
    /\ ioResults = EmptyDict
    /\ fioIdx = 1
    /\ fioJobs = <<>>
    /\ result = None
    /\ results = DictUpdate(EmptyDict, phoronix_results)
    /\ report = ClosedReport
    /\ rowIdx = 1
    /\ invoked =
          << [cmd |-> "phoronix install", arg |-> "pts/build-linux-kernel", sizes |-> <<>>,
              exit |-> 0, status |-> 0],
             [cmd |-> "phoronix batch-run", arg |-> "pts/build-linux-kernel", sizes |-> <<>>,
              exit |-> 0, status |-> 0],
             [cmd |-> "free", arg |-> "", sizes |-> <<>>, exit |-> 0, status |-> 0] >>
    /\ exc = ""
    /\ failedAt = ""
    /\ exitStatus = NotExited
    /\ output = [tool |-> "free", body |-> <<[exit |-> 0, digits |-> TRUE, ram |-> 2048]>>]

\* the iozone step; the state keeps, next to the text check_output
\* captured (body), what iozone wrote into the pipe (stdout)
IozoneBlock ==
    /\ pc = "iozone"
    /\ \E exit \in ExitCodes, lines \in SeqsUpTo(BlockLines, MaxBlockLines) :
          /\ IozoneOf(exit, lines)
          /\ output' = [tool |-> "iozone", body |-> GrepFilter(lines), stdout |-> lines]

NextFilter == IozoneBlock \/ FioWriteJob

FilterSpec == InitFilter /\ [][NextFilter]_vars

\* the rows of the output that hold the configured size
SizeRows(lines) == SelectSeq(lines, LAMBDA l : l.hasSize)

\* a three-row block in which exactly one row has neither word
ThreeRowBlock(lines) ==
    /\ Len(SizeRows(lines)) = 3
    /\ Cardinality({i \in 1..3 : SizeRows(lines)[i].label = ""}) = 1

PlainRow(lines) ==
    SizeRows(lines)[CHOOSE i \in 1..3 : SizeRows(lines)[i].label = ""]

\* C13: when iozone's output holds a three-row block for the configured
\* size in which exactly one row has neither "maximum" nor "minimum", the
\* recorded result is that row's write and read columns, each divided by
\* 1024, whichever of the three positions the row has (a row cut short
\* records nothing); and in every case no captured line holds either word.
C13_ThroughputLineFilter ==
    [][pc = "iozone" =>
         /\ \A i \in DOMAIN output'.body : output'.body[i].label = ""
         /\ ThreeRowBlock(output'.stdout) =>
              LET row == PlainRow(output'.stdout)
              IN IF row.ncols = 5
                 THEN /\ pc' = "fio_job"
                      /\ DictKeys(ioResults') = <<"iozone">>
                      /\ DictGet(ioResults', "iozone").result =
                            [kind |-> "iozone", text |-> <<>>,
                             w |-> row.write \div 1024, r |-> row.read \div 1024]
                 ELSE ioResults' = EmptyDict /\ pc' = "handler"]_vars

\* C13 witness: the block's plain row is the middle one and differs from
\* the rows around it in both columns, and its values are the recorded ones
C13_Witness ==
    /\ pc = "fio_job"
    /\ fioJobs = <<>>
    /\ output.tool = "iozone"
    /\ Len(output.stdout) = 3
    /\ ThreeRowBlock(output.stdout)
    /\ output.stdout[1].label = "maximum"
    /\ output.stdout[2] = [hasSize |-> TRUE, label |-> "", ncols |-> 5,
                           write |-> 4096, read |-> 3072]
    /\ output.stdout[3].label = "minimum"
    /\ output.stdout[1].write = 2048 /\ output.stdout[1].read = 1024
    /\ DictGet(ioResults, "iozone").result = [kind |-> "iozone", text |-> <<>>, w |-> 4, r |-> 3]

----------------------------------------------------------------------------
\* fio ran, exited 0 and left its output file
FioRan ==
    /\ pc = "fio_run"
    /\ Len(invoked') = Len(invoked) + 1
    /\ invoked'[Len(invoked')].exit = 0

\* the lines of fio's output that hold the test's word followed by iops=<digits>
IopsLines(word, lines) == SelectSeq(lines, LAMBDA l : l.word = word /\ l.digits # <<>>)

\* C14: when the output of a fio test holds a line of the test's kind with
\* iops=<digits>, the value recorded for the test is the complete run of
\* digits of the first such line, unmodified, as "<digits> IOPS", also when
\* the digits are the last characters of the line.
C14_FioValueIsDigitRun ==
    [][LET t     == REQUIRED_FIO_TESTS[fioIdx]
           lines == IopsLines(t.word, output'.body)
       IN (FioRan /\ lines # <<>>) =>
             /\ pc' \in {"fio_job", "ioping"}
             /\ DictHas(ioResults', t.fio_hdr)
             /\ DictGet(ioResults', t.fio_hdr).result =
                   [kind |-> "IOPS", text |-> lines[1].digits, w |-> 0, r |-> 0]]_vars

----------------------------------------------------------------------------
TestCommands == {i \in DOMAIN invoked : invoked[i].cmd \in ComputeTools \cup IoTools}

\* C15: the phoronix user-config document is completely written before the
\* first compute-test command (install or batch-run) is invoked, so before
\* every test command; and when writing it fails, no compute-test command
\* and no I/O tool is invoked.
C15_ConfigBeforeComputeTests ==
    /\ TestCommands # {} => configWritten
    /\ failedAt = "write_config" => (~configWritten /\ TestCommands = {})
    /\ ~configWritten => pc \notin ComputePcs \ {"write_config"}

\* C15 witness: a run with --deps whose write of the document failed has
\* exited after the installation commands only
C15_Witness ==
    /\ exc = "IOError"
    /\ failedAt = "write_config"
    /\ pc = "exited"
    /\ invoked # <<>>
    /\ invoked[Len(invoked)].cmd = "phoronix batch-setup"

----------------------------------------------------------------------------
\* the entries recorded so far: the dict of run_tests and the dict of the
\* family that is running
ResultSet == <<results, phoronix_results, ioResults>>

\* C16: when a tool invocation exits with a non-zero status the run
\* terminates with the ResultSet as it was before the call: the failing step
\* goes to the exception handler and records nothing, and nothing is
\* recorded afterwards, so the entries are those of the tests that completed
\* before the failing invocation.
C16_FailedCallLeavesResultSet ==
    [][ToolFailed' =>
          /\ ResultSet' = ResultSet
          /\ pc' \in {"handler", "exited"}]_vars

----------------------------------------------------------------------------
\* the commands that use the downloaded package: its installation, the
\* batch setup of the installed suite, and every test command
PackageUses ==
    {i \in DOMAIN invoked : invoked[i].cmd \in {"dpkg", "phoronix batch-setup"}} \cup TestCommands

\* C17: with --deps the downloaded package is verified before use: dpkg -i
\* of /tmp/phoronix.deb, the batch setup and the tests are invoked only when
\* the MD5 digest of the downloaded file equals PHORONIX_MD5.
C17_PackageVerifiedBeforeUse ==
    (args.deps /\ PackageUses # {}) => download_md5 = PHORONIX_MD5

----------------------------------------------------------------------------
InvalidMode == args.iobench_type \notin {"short", "long"}

\* every compute test ran its two commands and has its entry in the dict
\* of run_tests
ComputeFamilyRan ==
    \A k \in DOMAIN REQUIRED_PHORONIX_TESTS :
        /\ \E i, j \in DOMAIN invoked :
              /\ i < j
              /\ invoked[i].cmd = "phoronix install"
              /\ invoked[i].arg = REQUIRED_PHORONIX_TESTS[k].test
              /\ invoked[j].cmd = "phoronix batch-run"
              /\ invoked[j].arg = REQUIRED_PHORONIX_TESTS[k].test
        /\ DictHas(results, REQUIRED_PHORONIX_TESTS[k].test)

\* C18: in a run whose I/O mode is neither short nor long no iozone, fio or
\* ioping is ever invoked and no fio job file is ever written; the mode is
\* looked at only in __get_io_test_size, after the compute family, so a run
\* that fails there has executed every compute test.
C18_InvalidModeRunsNoIoTool ==
    InvalidMode =>
        /\ \A i \in DOMAIN invoked : invoked[i].cmd \notin IoFamilyTools
        /\ fioJobs = <<>>
        /\ pc \notin {"iozone", "fio_job", "fio_run", "ioping", "io_return"}
        /\ (pc = "get_size" \/ failedAt = "get_size") => ComputeFamilyRan

\* C18 witness: a run in mode medium was rejected by __get_io_test_size and
\* has exited, after the compute family
C18_Witness ==
    /\ InvalidMode
    /\ exc = "CloudBenchException"
    /\ failedAt = "get_size"
    /\ pc = "exited"
    /\ ComputeFamilyRan

----------------------------------------------------------------------------
\* the display name declared for a test: in the two registries, and in
\* __run_iobench_test for iozone and ioping
DeclaredName(k) ==
    IF k \in ComputeKeys
    THEN REQUIRED_PHORONIX_TESTS[CHOOSE i \in DOMAIN REQUIRED_PHORONIX_TESTS :
                                    REQUIRED_PHORONIX_TESTS[i].test = k].name
    ELSE IF k \in FioKeys
    THEN REQUIRED_FIO_TESTS[CHOOSE i \in DOMAIN REQUIRED_FIO_TESTS :
                               REQUIRED_FIO_TESTS[i].fio_hdr = k].test_name
    ELSE IF k = "iozone" THEN "IOZone I/O Throughput Test"
    ELSE "IOPing Write Latency Test"

\* the report of the result set: the header line, then one row per entry
ExpectedReport ==
    LET keys == DictKeys(results)
    IN <<HeaderLine>> \o
       [i \in DOMAIN keys |->
           [hostname |-> report.hostname, test_name |-> keys[i],
            test_description |-> DictGet(results, keys[i]).name,
            test_result |-> DictGet(results, keys[i]).result]]

\* C19: whenever the run has reached Completed, the ResultSet holds exactly
\* one entry for every registered test and nothing else (its keys are
\* pts/build-linux-kernel, iozone, random-write, random-read and ioping),
\* every entry has the display name declared for its test, and the report
\* is one header line plus one row per entry, all rows with the same
\* hostname: while it is written it is a prefix of those lines, and when the
\* write has finished it is all of them.
C19_CompletedResultSetAndReport ==
    Phase = "Completed" =>
        /\ {results[s].key : s \in Slots} \ {""} =
              {"pts/build-linux-kernel", "iozone", "random-write", "random-read", "ioping"}
        /\ DictLen(results) = 5
        /\ \A k \in TestKeys : KeyCount(results, k) = 1
        /\ \A k \in TestKeys : DictGet(results, k).name = DeclaredName(k)
        /\ LET expected == ExpectedReport
           IN /\ IsPrefix(report.lines, expected)
              /\ (report.closed /\ exc = "") => report.lines = expected
        /\ \A i, j \in 2..Len(report.lines) :
              /\ report.lines[i].hostname = report.lines[j].hostname
              /\ report.lines[i].hostname \in Hostnames

\* C19 witness: a run has exited with status 0 and its report has the
\* header and five rows
C19_Witness ==
    /\ Phase = "Completed"
    /\ exitStatus = 0
    /\ report.closed
    /\ Len(report.lines) = 6
    /\ report.lines[6].hostname = "host-b"

====
